---------------------------- MODULE Spec2Model ----------------------------
(***************************************************************************)
(* A model of the segmentation and rank-fusion core of EDGAR-Searcher:     *)
(*   src/backend/document_chunker.py  (identify_item_sections,             *)
(*                                     split_text_into_chunks,             *)
(*                                     chunk_filing)                       *)
(*   src/backend/reranker.py          (BM25Scorer._tokenize,                *)
(*                                     BM25Scorer.score, Reranker.rerank)  *)
(*                                                                         *)
(* Texts are sequences of one-character strings, so that character         *)
(* offsets, whitespace splitting and the marker pattern are computed on    *)
(* the characters as the code computes them.  Python indices are 0-based;  *)
(* a Python list is a TLA+ sequence whose element i is at position i+1.    *)
(***************************************************************************)
EXTENDS Integers, Sequences, FiniteSets, TLC

(***************************************************************************)
(* Bounds of the model.                                                    *)
(***************************************************************************)
\* most words in a text handed to split_text_into_chunks directly
MaxWords == 6
\* chunk_size ranges over 1..MaxChunkSize
MaxChunkSize == 3
\* overlap ranges over 0..MaxOverlap
MaxOverlap == 3
\* cap on the iterations of the windowing loop that the model follows
MaxChunks == 7
\* most candidates in a results bundle handed to Reranker.rerank
MaxDocs == 3
\* BM25 scores range over the levels 0..MaxScore
MaxScore == 2
\* n_final ranges over 0..MaxFinal
MaxFinal == 3
\* distances of a bundle are 0, s, 2s, ... for a step s in 0..MaxDistanceStep
MaxDistanceStep == 1
\* most pieces concatenated into a text handed to identify_item_sections
MaxPieces == 4
\* most nodes in a markup document handed to chunk_filing
MaxNodes == 3
\* most pieces concatenated into a text handed to BM25Scorer._tokenize
MaxTokenPieces == 3

VARIABLES
    pc,          \* position of the running call
    caller,      \* who called split_text_into_chunks: "top" or "chunk_filing"
    text,        \* split_text_into_chunks: argument text
    chunk_size,  \* split_text_into_chunks: argument chunk_size
    overlap,     \* split_text_into_chunks: argument overlap
    words,       \* split_text_into_chunks: local words
    chunks,      \* split_text_into_chunks: local chunks
    chunk_index, \* split_text_into_chunks: local chunk_index
    start,       \* split_text_into_chunks: local start (the cursor)
    results,          \* Reranker.rerank: argument results
    n_final,          \* Reranker.rerank: argument n_final
    bm25_scores,      \* Reranker.rerank: local bm25_scores
    bm25_ranks,       \* Reranker.rerank: local bm25_ranks
    rrf_scores,       \* Reranker.rerank: local rrf_scores
    reranked_indices, \* Reranker.rerank: local reranked_indices
    reranked_results, \* Reranker.rerank: the returned bundle
    item_text,        \* identify_item_sections: argument text
    sections,         \* identify_item_sections: the returned list
    html_content,       \* chunk_filing: argument html_content
    filing_text,        \* chunk_filing: local text
    sec_i,              \* chunk_filing: loop index i over sections
    filing_chunks,      \* chunk_filing: local chunks, the returned list
    global_chunk_index, \* chunk_filing: local global_chunk_index
    filing_args,        \* chunk_filing: the other arguments of the call
    call_no,            \* chunk_filing: calls made so far with these arguments
    first_chunks,       \* chunk_filing: the list the first of these calls returned
    query,         \* BM25Scorer.score: argument query
    documents,     \* BM25Scorer.score: argument documents
    query_terms,   \* BM25Scorer.score: local query_terms
    doc_tokens,    \* BM25Scorer.score: local doc_tokens
    avg_doc_len,   \* BM25Scorer.score: local avg_doc_len
    doc_scores,    \* BM25Scorer.score: local scores, the returned list
    raised,        \* BM25Scorer.score: the exception raised, or "none"
    tok_text,      \* BM25Scorer._tokenize: argument text
    tok_words      \* BM25Scorer._tokenize: local words, the returned list

splitVars == <<text, chunk_size, overlap, words, chunks, chunk_index, start>>
rerankVars == <<results, n_final, bm25_scores, bm25_ranks, rrf_scores,
                reranked_indices, reranked_results>>
locatorVars == <<item_text, sections>>
filingVars == <<html_content, filing_text, sec_i, filing_chunks, global_chunk_index,
                filing_args, call_no, first_chunks>>
scoreVars == <<query, documents, query_terms, doc_tokens, avg_doc_len, doc_scores, raised,
               tok_text, tok_words>>
vars == <<pc, caller, splitVars, rerankVars, scoreVars, locatorVars, filingVars>>

(***************************************************************************)
(* Python built-ins used by the code.                                      *)
(***************************************************************************)
Min(a, b) == IF a <= b THEN a ELSE b

Max(a, b) == IF a >= b THEN a ELSE b

\* str.isspace for the characters of the model's alphabet
IsSpace(c) == c = " "

\* seq[lo:hi] of Python, negative indices counted from the end, both clamped
PySlice(s, lo, hi) ==
    LET n == Len(s)
        l == IF lo < 0 THEN Max(n + lo, 0) ELSE Min(lo, n)
        h == IF hi < 0 THEN Max(n + hi, 0) ELSE Min(hi, n)
    IN  SubSeq(s, l + 1, h)

\* the index of the first character of s at or after position i (1-based)
\* that is whitespace, or Len(s)+1
RECURSIVE WordEnd(_, _)
WordEnd(s, i) ==
    IF i > Len(s) \/ IsSpace(s[i]) THEN i ELSE WordEnd(s, i + 1)

\* str.split(): the maximal runs of non-whitespace characters, in order
RECURSIVE SplitFrom(_, _)
SplitFrom(s, i) ==
    IF i > Len(s) THEN <<>>
    ELSE IF IsSpace(s[i]) THEN SplitFrom(s, i + 1)
    ELSE LET e == WordEnd(s, i)
         IN  <<SubSeq(s, i, e - 1)>> \o SplitFrom(s, e)

\* str.split(' ') in place of str.split(): every single space separates, so
\* the empty text has one (empty) word
RECURSIVE PySplit_OnSpace(_)
PySplit_OnSpace(s) ==
    LET e == WordEnd(s, 1)
    IN  IF e > Len(s) THEN <<s>>
        ELSE <<SubSeq(s, 1, e - 1)>> \o PySplit_OnSpace(SubSeq(s, e + 1, Len(s)))

PySplit(s) == SplitFrom(s, 1)

\* ' '.join(ws)
RECURSIVE Join(_)
Join(ws) ==
    IF ws = <<>> THEN <<>>
    ELSE IF Len(ws) = 1 THEN ws[1]
    ELSE ws[1] \o <<" ">> \o Join(Tail(ws))

(***************************************************************************)
(* split_text_into_chunks, lines 139-177.                                  *)
(***************************************************************************)
\* line 164: end = min(start + chunk_size, len(words))
WindowEnd(st, cs, n) == Min(st + cs, n)

\* line 171 with the cursor advanced one word too far
AdvanceStart_SkipWord(end, ov, n) == IF end < n THEN end - ov + 1 ELSE n

\* line 171: start = end - overlap if end < len(words) else len(words)
AdvanceStart(end, ov, n) == IF end < n THEN end - ov ELSE n

\* lines 173-175 with the guard reading the incremented chunk_index
GuardStart_NextIndex(st, end, last, cs, ov, n) ==
    IF st <= (last + 1) * (cs - ov) /\ end < n THEN end ELSE st

\* lines 173-175: the guard against overlap >= chunk_size; last is
\* chunks[-1][1], the index of the window appended in this iteration
GuardStart(st, end, last, cs, ov, n) ==
    IF st <= last * (cs - ov) /\ end < n THEN end ELSE st

\* lines 170-175: the cursor after one iteration
NextStart(end, last, cs, ov, n) ==
    GuardStart(AdvanceStart(end, ov, n), end, last, cs, ov, n)

\* lines 165-167: the tuple appended to chunks; lo and hi record the values
\* of start and end the window was cut with (history fields, not returned)
Window(ws, st, end, idx) ==
    [text |-> Join(PySlice(ws, st, end)), index |-> idx, lo |-> st, hi |-> end]

\* the j-th word of a generated text: j letters, so words are pairwise distinct
WordNo(j) == [k \in 1..j |-> "w"]

\* a text of L words, each followed by 1 + pad spaces and preceded by pad spaces
RECURSIVE SpacedFrom(_, _, _)
SpacedFrom(j, L, pad) ==
    IF j > L THEN <<>>
    ELSE [k \in 1..pad |-> " "] \o WordNo(j) \o <<" ">> \o SpacedFrom(j + 1, L, pad)

SplitTexts == { SpacedFrom(1, L, pad) : L \in 0..MaxWords, pad \in 0..1 }

\* every behaviour follows one call: the operations keep no state between calls
Idle == pc = "idle"

\* lines 155-161: the call, the whitespace split, the empty-text return
SplitEnter(t, cs, ov, from, ret) ==
    /\ text' = t
    /\ chunk_size' = cs
    /\ overlap' = ov
    /\ words' = PySplit(t)
    /\ chunks' = <<>>
    /\ chunk_index' = 0
    /\ start' = 0
    /\ caller' = from
    /\ pc' = IF PySplit(t) = <<>> THEN ret ELSE "split_loop"

CallSplit ==
    /\ Idle
    /\ \E t \in SplitTexts, cs \in 1..MaxChunkSize, ov \in 0..MaxOverlap :
          SplitEnter(t, cs, ov, "top", "split_done")
    /\ UNCHANGED <<rerankVars, scoreVars, locatorVars, filingVars>>

\* lines 163-175: one iteration of the while loop
SplitIter ==
    /\ pc = "split_loop"
    /\ start < Len(words)
    /\ Len(chunks) < MaxChunks
    /\ LET end == WindowEnd(start, chunk_size, Len(words))
       IN  /\ chunks' = Append(chunks, Window(words, start, end, chunk_index))
           /\ chunk_index' = chunk_index + 1
           /\ start' = NextStart(end, chunk_index, chunk_size, overlap, Len(words))
    /\ UNCHANGED <<pc, caller, text, chunk_size, overlap, words,
                   rerankVars, scoreVars, locatorVars, filingVars>>

\* lines 163, 177: the loop condition fails and chunks is returned
SplitReturn ==
    /\ pc = "split_loop"
    /\ ~(start < Len(words))
    /\ pc' = IF caller = "top" THEN "split_done" ELSE "filing_collect"
    /\ UNCHANGED <<caller, splitVars, rerankVars, scoreVars, locatorVars, filingVars>>

(***************************************************************************)
(* Reranker.rerank, reranker.py lines 130-194.                             *)
(***************************************************************************)
\* line 119: the RRF constant k
K == 60

\* a sort key: the float the code compares, kept as the exact fraction
\* num / den with den > 0 (a BM25 score level s is s / 1)
KeyGt(a, b) == a.num * b.den > b.num * a.den

Whole(x) == [num |-> x, den |-> 1]

\* lines 164-168 and 181-185 with equal keys placed in descending index
\* order, as an ascending sort read backward would place them
SortedDescPos_TiesReversed(keys, i) ==
    Cardinality({ j \in 0..(Len(keys) - 1) :
                    \/ KeyGt(keys[j + 1], keys[i + 1])
                    \/ (~KeyGt(keys[i + 1], keys[j + 1]) /\ j > i) })

\* lines 164-168 and 181-185 without reverse=True: ascending and stable
SortedDescPos_Ascending(keys, i) ==
    Cardinality({ j \in 0..(Len(keys) - 1) :
                    \/ KeyGt(keys[i + 1], keys[j + 1])
                    \/ (~KeyGt(keys[j + 1], keys[i + 1]) /\ j < i) })

\* sorted(range(n), key=lambda i: keys[i], reverse=True): stable, so among
\* equal keys the lower index comes first.  Pos is the number of indices
\* placed before i.
SortedDescPos(keys, i) ==
    Cardinality({ j \in 0..(Len(keys) - 1) :
                    \/ KeyGt(keys[j + 1], keys[i + 1])
                    \/ (~KeyGt(keys[i + 1], keys[j + 1]) /\ j < i) })

SortedDesc(keys) ==
    [p \in 1..Len(keys) |->
        CHOOSE i \in 0..(Len(keys) - 1) : SortedDescPos(keys, i) = p - 1]

\* lines 164-168: bm25_ranked_indices
Bm25RankedIndices(scores) ==
    SortedDesc([q \in 1..Len(scores) |-> Whole(scores[q])])

\* lines 169-171: bm25_ranks[idx] = rank for rank, idx in enumerate(ranked),
\* the position of idx in bm25_ranked_indices
Bm25Rank(scores, idx) ==
    SortedDescPos([q \in 1..Len(scores) |-> Whole(scores[q])], idx)

Bm25Ranks(scores) == [q \in 1..Len(scores) |-> Bm25Rank(scores, q - 1)]

\* line 161 with the candidates ranked from the end of the list
VectorRanks_Descending(n) == [q \in 1..n |-> n - q]

\* line 161: vector_ranks = list(range(n_docs))
VectorRanks(n) == [q \in 1..n |-> q - 1]

\* lines 176-178 with the lexical term left out of the sum
RrfScore_VectorOnly(vr, br) == [num |-> 1, den |-> K + vr]

\* lines 176-178: 1.0 / (k + vr) + 1.0 / (k + br), kept as an exact fraction
RrfScore(vr, br) == [num |-> (K + vr) + (K + br), den |-> (K + vr) * (K + br)]

\* lines 174-178: rrf_scores
RrfScores(vranks, branks) ==
    [q \in 1..Len(vranks) |-> RrfScore(vranks[q], branks[q])]

\* line 185 with one element too many kept
Truncate_OneMore(seq, nf) == PySlice(seq, 0, nf + 1)

\* line 185: [:n_final]
Truncate(seq, nf) == PySlice(seq, 0, nf)

\* lines 154-185 with the candidates fused by raw value, BM25 score minus
\* distance, instead of by rank
RerankedIndices_ByValue(res, scores, nf) ==
    Truncate(SortedDesc([q \in 1..Len(res.documents) |->
                            Whole(scores[q] - res.distances[q])]),
             nf)

\* lines 154-185: reranked_indices
RerankedIndices(res, scores, nf) ==
    Truncate(SortedDesc(RrfScores(VectorRanks(Len(res.documents)), Bm25Ranks(scores))),
             nf)

\* lines 188-192 with distances cut to length but not re-projected
BuildResults_StaleDistances(res, idx) ==
    [documents |-> [p \in 1..Len(idx) |-> res.documents[idx[p] + 1]],
     metadatas |-> [p \in 1..Len(idx) |-> res.metadatas[idx[p] + 1]],
     distances |-> PySlice(res.distances, 0, Len(idx))]

\* lines 188-192: the three arrays projected through reranked_indices
BuildResults(res, idx) ==
    [documents |-> [p \in 1..Len(idx) |-> res.documents[idx[p] + 1]],
     metadatas |-> [p \in 1..Len(idx) |-> res.metadatas[idx[p] + 1]],
     distances |-> [p \in 1..Len(idx) |-> res.distances[idx[p] + 1]]]

EmptyBundle == [documents |-> <<>>, metadatas |-> <<>>, distances |-> <<>>]

\* the bundles of n candidates: candidate q carries its own document and
\* metadata, distances ascend from 0 in equal steps (step 0: all equal)
Bundles(n) ==
    { [documents |-> [q \in 1..n |-> <<"doc", q - 1>>],
       metadatas |-> [q \in 1..n |-> <<"meta", q - 1>>],
       distances |-> [q \in 1..n |-> (q - 1) * step]] : step \in 0..MaxDistanceStep }

\* the score vectors BM25Scorer.score may return for n documents; the
\* ranking reads only their order
ScoreVectors(n) == [1..n -> 0..MaxScore]

\* lines 147-194: one call of rerank.  With no documents the bundle is
\* returned as it is (lines 151-152) and nothing else is computed.
Rerank ==
    /\ Idle
    /\ \E n \in 0..MaxDocs :
         \E res \in Bundles(n), scores \in ScoreVectors(n), nf \in 0..MaxFinal :
            /\ results' = res
            /\ n_final' = nf
            /\ IF res.documents = <<>>
               THEN /\ bm25_scores' = <<>>
                    /\ bm25_ranks' = <<>>
                    /\ rrf_scores' = <<>>
                    /\ reranked_indices' = <<>>
                    /\ reranked_results' = res
               ELSE /\ bm25_scores' = scores
                    /\ bm25_ranks' = Bm25Ranks(scores)
                    /\ rrf_scores' = RrfScores(VectorRanks(n), Bm25Ranks(scores))
                    /\ reranked_indices' = RerankedIndices(res, scores, nf)
                    /\ reranked_results' =
                          BuildResults(res, RerankedIndices(res, scores, nf))
    /\ pc' = "rerank_done"
    /\ UNCHANGED <<caller, splitVars, scoreVars, locatorVars, filingVars>>

(***************************************************************************)
(* identify_item_sections, document_chunker.py lines 19-47 and 108-136.    *)
(***************************************************************************)
LowerCase == <<"a", "b", "c", "d", "e", "f", "g", "h", "i", "j", "k", "l", "m",
               "n", "o", "p", "q", "r", "s", "t", "u", "v", "w", "x", "y", "z">>

UpperCase == <<"A", "B", "C", "D", "E", "F", "G", "H", "I", "J", "K", "L", "M",
               "N", "O", "P", "Q", "R", "S", "T", "U", "V", "W", "X", "Y", "Z">>

Digits == {"0", "1", "2", "3", "4", "5", "6", "7", "8", "9"}

\* \w of the pattern language
WordChars ==
    { LowerCase[k] : k \in 1..26 } \cup { UpperCase[k] : k \in 1..26 }
        \cup Digits \cup {"_"}

\* str.upper() on the lower-case letters
UpperOf ==
    [c \in { LowerCase[k] : k \in 1..26 } |->
        UpperCase[CHOOSE k \in 1..26 : LowerCase[k] = c]]

\* str.upper() on one character
ToUpper(c) == IF c \in DOMAIN UpperOf THEN UpperOf[c] ELSE c

\* str.upper()
UpperSeq(s) == [k \in 1..Len(s) |-> ToUpper(s[k])]

\* lines 19-22: the keyword group (Item|ITEM), matched ignoring case
Keyword == <<"I", "t", "e", "m">>

\* lines 19-22: the alternatives of the code group in the order of the pattern
ItemCodes ==
    << <<"1", "A">>, <<"1", "B">>, <<"1", "C">>, <<"2">>, <<"3">>, <<"4">>,
       <<"5">>, <<"6">>, <<"7", "A">>, <<"7">>, <<"8">>, <<"9", "A">>,
       <<"9", "B">>, <<"9">>, <<"1", "0">>, <<"1", "1">>, <<"1", "2">>,
       <<"1", "3">>, <<"1", "4">>, <<"1", "5">>, <<"1">> >>

\* lines 25-47: ITEM_NAMES
ITEM_NAMES ==
    ( <<"1">> :> "Business"
   @@ <<"1", "A">> :> "Risk Factors"
   @@ <<"1", "B">> :> "Unresolved Staff Comments"
   @@ <<"1", "C">> :> "Cybersecurity"
   @@ <<"2">> :> "Properties"
   @@ <<"3">> :> "Legal Proceedings"
   @@ <<"4">> :> "Mine Safety Disclosures"
   @@ <<"5">> :> "Market for Registrant's Common Equity"
   @@ <<"6">> :> "Reserved"
   @@ <<"7">> :> "Management's Discussion and Analysis"
   @@ <<"7", "A">> :> "Quantitative and Qualitative Disclosures About Market Risk"
   @@ <<"8">> :> "Financial Statements and Supplementary Data"
   @@ <<"9">> :> "Changes in and Disagreements With Accountants"
   @@ <<"9", "A">> :> "Controls and Procedures"
   @@ <<"9", "B">> :> "Other Information"
   @@ <<"1", "0">> :> "Directors, Executive Officers and Corporate Governance"
   @@ <<"1", "1">> :> "Executive Compensation"
   @@ <<"1", "2">> :> "Security Ownership"
   @@ <<"1", "3">> :> "Certain Relationships and Related Transactions"
   @@ <<"1", "4">> :> "Principal Accountant Fees and Services"
   @@ <<"1", "5">> :> "Exhibits and Financial Statement Schedules" )

\* line 131: ITEM_NAMES.get(item_number, "Unknown Section")
ItemName(num) ==
    IF num \in DOMAIN ITEM_NAMES THEN ITEM_NAMES[num] ELSE "Unknown Section"

\* a literal of the pattern matches s at position i (1-based), ignoring case
MatchLit(s, i, lit) ==
    /\ i + Len(lit) - 1 <= Len(s)
    /\ \A k \in 1..Len(lit) : ToUpper(s[i + k - 1]) = ToUpper(lit[k])

IsWordAt(s, i) == i >= 1 /\ i <= Len(s) /\ s[i] \in WordChars

\* line 20 with the trailing \b left out of the pattern
WordBoundary_Absent(s, i) == TRUE

\* line 20: \b between the characters at positions i and i+1
WordBoundary(s, i) == IsWordAt(s, i) # IsWordAt(s, i + 1)

\* line 20: \s*, greedy; giving whitespace back never helps, since no code
\* starts with whitespace
RECURSIVE SkipSpace(_, _)
SkipSpace(s, i) ==
    IF i <= Len(s) /\ IsSpace(s[i]) THEN SkipSpace(s, i + 1) ELSE i

\* line 20: the first alternative, in pattern order, that matches at i and is
\* followed by \b; 0 when none does
RECURSIVE CodeAltFrom(_, _, _)
CodeAltFrom(s, i, a) ==
    IF a > Len(ItemCodes) THEN 0
    ELSE IF MatchLit(s, i, ItemCodes[a]) /\ WordBoundary(s, i + Len(ItemCodes[a]) - 1)
         THEN a
         ELSE CodeAltFrom(s, i, a + 1)

\* ITEM_PATTERN tried at position i: ok, the match's 0-based start, the
\* position after it, and group(2) as it stands in the text
MatchAt(s, i) ==
    IF ~MatchLit(s, i, Keyword)
    THEN [ok |-> FALSE, start |-> i - 1, next |-> i + 1, group2 |-> <<>>]
    ELSE LET j == SkipSpace(s, i + Len(Keyword))
             a == CodeAltFrom(s, j, 1)
         IN  IF a = 0
             THEN [ok |-> FALSE, start |-> i - 1, next |-> i + 1, group2 |-> <<>>]
             ELSE [ok |-> TRUE, start |-> i - 1, next |-> j + Len(ItemCodes[a]),
                   group2 |-> SubSeq(s, j, j + Len(ItemCodes[a]) - 1)]

\* line 121: ITEM_PATTERN.finditer(text), the non-overlapping matches from
\* left to right
RECURSIVE FindIter(_, _)
FindIter(s, i) ==
    IF i > Len(s) THEN <<>>
    ELSE LET m == MatchAt(s, i)
         IN  IF m.ok THEN <<m>> \o FindIter(s, m.next) ELSE FindIter(s, i + 1)

\* lines 122-124 with the code kept as it was matched
NormalizeCode_AsMatched(g) == g

\* lines 122-124: item_number = match.group(2).upper()
NormalizeCode(g) == UpperSeq(g)

\* line 132 with the boundary put where the marker ends (match.end())
MatchPosition_End(m) == m.next - 1

\* line 132: match.start(), the 0-based offset where the marker begins
MatchPosition(m) == m.start

\* lines 121-132: the loop over the matches ms from match k on, with the
\* codes seen so far
RECURSIVE CollectSections(_, _, _)
CollectSections(ms, k, seen) ==
    IF k > Len(ms) THEN <<>>
    ELSE LET item_number == NormalizeCode(ms[k].group2)
         IN  IF item_number \in seen
             THEN CollectSections(ms, k + 1, seen)
             ELSE <<[position |-> MatchPosition(ms[k]), item_number |-> item_number,
                     item_name |-> ItemName(item_number)]>>
                  \o CollectSections(ms, k + 1, seen \cup {item_number})

\* line 135: sections.sort(key=lambda x: x[0]), stable and ascending
SortByPosition(secs) ==
    [p \in 1..Len(secs) |->
        secs[CHOOSE a \in 1..Len(secs) :
                Cardinality({ b \in 1..Len(secs) :
                    \/ secs[b].position < secs[a].position
                    \/ (secs[b].position = secs[a].position /\ b < a) }) = p - 1]]

\* lines 118-136
identify_item_sections(t) == SortByPosition(CollectSections(FindIter(t, 1), 1, {}))

\* the pieces the texts of the model are concatenated from
Pieces ==
    { <<"I", "t", "e", "m", " ", "1">>,
      <<" ", "I", "t", "e", "m", " ", "1", "A">>,
      <<" ", "i", "t", "e", "m", " ", "1", "a">>,
      <<" ", "I", "t", "e", "m", " ", "2">>,
      <<" ", "I", "T", "E", "M", "7">>,
      <<"0">>,
      <<"A">>,
      <<" ">>,
      <<" ", "x">> }

RECURSIVE PieceTexts(_)
PieceTexts(n) ==
    IF n = 0 THEN {<<>>}
    ELSE LET shorter == PieceTexts(n - 1)
         IN  shorter \cup { t \o q : t \in { u \in shorter : Len(u) > 0 \/ n = 1 },
                                      q \in Pieces }

ItemTexts == PieceTexts(MaxPieces)

\* lines 108-136: one call of identify_item_sections
IdentifyItemSections ==
    /\ Idle
    /\ \E t \in ItemTexts :
          /\ item_text' = t
          /\ sections' = identify_item_sections(t)
    /\ pc' = "identify_done"
    /\ UNCHANGED <<caller, splitVars, rerankVars, scoreVars, filingVars>>

(***************************************************************************)
(* chunk_filing, document_chunker.py lines 82-105 and 180-269.             *)
(***************************************************************************)
\* a parsed markup document: its nodes in document order, each a text node
\* or an element that line 95-96 removes (script, style, head, meta, link)
TextNode(chars) == [kind |-> "text", chars |-> chars]

RemovedNode(chars) == [kind |-> "script", chars |-> chars]

\* lines 95-99: the strings get_text sees once the removed elements are gone
RECURSIVE TextStrings(_)
TextStrings(html) ==
    IF html = <<>> THEN <<>>
    ELSE IF html[1].kind = "text" THEN <<html[1].chars>> \o TextStrings(Tail(html))
    ELSE TextStrings(Tail(html))

\* line 101: re.sub(r'\s+', ' ', text)
RECURSIVE CollapseFrom(_, _)
CollapseFrom(s, i) ==
    IF i > Len(s) THEN <<>>
    ELSE IF IsSpace(s[i]) THEN <<" ">> \o CollapseFrom(s, SkipSpace(s, i))
    ELSE <<s[i]>> \o CollapseFrom(s, i + 1)

\* line 103 and line 247: str.strip()
RECURSIVE LastNonSpace(_, _)
LastNonSpace(s, i) ==
    IF i >= 1 /\ IsSpace(s[i]) THEN LastNonSpace(s, i - 1) ELSE i

Strip(s) == SubSeq(s, SkipSpace(s, 1), LastNonSpace(s, Len(s)))

\* lines 92-105: get_text(separator=' ') joins the strings with one space
extract_text_from_html(html) == Strip(CollapseFrom(Join(TextStrings(html)), 1))

\* lines 229 and 258 with the window's own index in place of the global one
DocChunkIndex_Local(global, local) == local

\* lines 229 and 258: chunk_index=global_chunk_index
DocChunkIndex(global, local) == global

None == <<"None">>

NoName == "None"

\* lines 224-237 with the name of an unlabelled span defaulted the way
\* line 131 defaults the name of an unknown code
MakeChunks_DefaultName(tc, item_number, item_name, g, args) ==
    [k \in 1..Len(tc) |->
        [text |-> tc[k].text,
         item_number |-> item_number,
         item_name |-> IF item_number = None THEN "Unknown Section" ELSE item_name,
         chunk_index |-> DocChunkIndex(g + k - 1, tc[k].index),
         filing_type |-> args.filing_type,
         filing_date |-> args.filing_date,
         ticker |-> args.ticker,
         cik |-> args.cik,
         accession_number |-> args.accession_number,
         lo |-> tc[k].lo,
         hi |-> tc[k].hi]]

\* lines 50-61, 224-237 and 253-266: the DocumentChunk records made of the
\* windows tc for one span, the first numbered g; lo and hi record the word
\* range of the span the window was cut with (history fields, not fields of
\* DocumentChunk)
MakeChunks(tc, item_number, item_name, g, args) ==
    [k \in 1..Len(tc) |->
        [text |-> tc[k].text,
         item_number |-> item_number,
         item_name |-> item_name,
         chunk_index |-> DocChunkIndex(g + k - 1, tc[k].index),
         filing_type |-> args.filing_type,
         filing_date |-> args.filing_date,
         ticker |-> args.ticker,
         cik |-> args.cik,
         accession_number |-> args.accession_number,
         lo |-> tc[k].lo,
         hi |-> tc[k].hi]]

\* the decimal digits
DigitChars == <<"0", "1", "2", "3", "4", "5", "6", "7", "8", "9">>

\* str(n) for an integer n >= 0, as the f-string of line 79 formats it
RECURSIVE IntToStr(_)
IntToStr(n) ==
    IF n < 10 THEN <<DigitChars[n + 1]>>
    ELSE IntToStr(n \div 10) \o <<DigitChars[(n % 10) + 1]>>

\* lines 76-79: generate_id; None and the empty string become "unknown"
generate_id(chunk) ==
    LET item == IF chunk.item_number = None \/ chunk.item_number = <<>>
                THEN <<"u", "n", "k", "n", "o", "w", "n">>
                ELSE chunk.item_number
    IN  chunk.accession_number \o <<"_">> \o item \o <<"_">> \o IntToStr(chunk.chunk_index)

\* lines 63-74: to_metadata_dict; None becomes the empty string
to_metadata_dict(chunk) ==
    [item_number |-> IF chunk.item_number = None THEN <<>> ELSE chunk.item_number,
     item_name |-> IF chunk.item_name = NoName THEN "" ELSE chunk.item_name,
     chunk_index |-> chunk.chunk_index,
     filing_type |-> chunk.filing_type,
     filing_date |-> chunk.filing_date,
     ticker |-> chunk.ticker,
     cik |-> chunk.cik,
     accession_number |-> chunk.accession_number]

\* line 219 with the counter kept from the call before
FirstChunkIndex_Carried(previous) == previous

\* line 219: global_chunk_index = 0, whatever an earlier call left
FirstChunkIndex(previous) == 0

\* the filings of the model: two accession numbers of one company
FilingMetas ==
    { [ticker |-> "ACME", cik |-> "0000001", filing_date |-> "2024-02-01",
       filing_type |-> "10-K", accession_number |-> acc] :
         acc \in { <<"1", "-", "2", "4">>, <<"1", "-", "2", "5">> } }

\* lines 241-247 with every section running to the end of the text
SectionText_ToEnd(t, secs, i) == Strip(PySlice(t, secs[i + 1].position, Len(t)))

\* lines 241-247: the text of section i (0-based), stripped
SectionText(t, secs, i) ==
    LET start_pos == secs[i + 1].position
        end_pos == IF i + 1 < Len(secs) THEN secs[i + 2].position ELSE Len(t)
    IN  Strip(PySlice(t, start_pos, end_pos))

\* the nodes the markup documents of the model are made of
FilingNodes ==
    { TextNode(<<"I", "t", "e", "m", " ", "1">>),
      TextNode(<<"i", "t", "e", "m", " ", "1">>),
      TextNode(<<"I", "t", "e", "m", " ", "2">>),
      TextNode(<<"z", "I", "t", "e", "m", "3">>),
      TextNode(<<"x", " ", " ", "y">>),
      TextNode(<<" ">>),
      RemovedNode(<<"I", "t", "e", "m", " ", "3">>) }

RECURSIVE NodeSeqs(_)
NodeSeqs(n) ==
    IF n = 0 THEN {<<>>}
    ELSE LET shorter == NodeSeqs(n - 1)
         IN  shorter \cup { Append(h, q) : h \in { u \in shorter : Len(u) = n - 1 },
                                           q \in FilingNodes }

Htmls == NodeSeqs(MaxNodes)

\* lines 206-223: the call up to the first span.  Empty text returns the
\* empty list; with no sections the whole text is windowed.
FilingEnter(html, args) ==
    LET t == extract_text_from_html(html)
        secs == identify_item_sections(t)
    IN  /\ html_content' = html
        /\ filing_args' = args
        /\ filing_text' = t
        /\ filing_chunks' = <<>>
        /\ global_chunk_index' = FirstChunkIndex(global_chunk_index)
        /\ sec_i' = 0
        /\ IF t = <<>>
           THEN /\ pc' = "filing_done"
                /\ UNCHANGED <<caller, splitVars, locatorVars>>
           ELSE /\ item_text' = t
                /\ sections' = secs
                /\ IF secs = <<>>
                   THEN SplitEnter(t, args.chunk_size, args.overlap,
                                   "chunk_filing", "filing_collect")
                   ELSE /\ pc' = "filing_section"
                        /\ caller' = "chunk_filing"
                        /\ chunk_size' = args.chunk_size
                        /\ overlap' = args.overlap
                        /\ UNCHANGED <<text, words, chunks, chunk_index, start>>

\* lines 180-223: a first call of chunk_filing
ChunkFiling ==
    /\ Idle
    /\ \E html \in Htmls, meta \in FilingMetas,
          cs \in 1..MaxChunkSize, ov \in 0..MaxOverlap :
          FilingEnter(html, [ticker |-> meta.ticker, cik |-> meta.cik,
                             accession_number |-> meta.accession_number,
                             filing_date |-> meta.filing_date,
                             filing_type |-> meta.filing_type,
                             chunk_size |-> cs, overlap |-> ov])
    /\ call_no' = 1
    /\ UNCHANGED <<rerankVars, scoreVars, first_chunks>>

\* lines 180-223: chunk_filing called once more with the arguments of the
\* call that has returned
ChunkFilingAgain ==
    /\ pc = "filing_done"
    /\ call_no = 1
    /\ FilingEnter(html_content, filing_args)
    /\ call_no' = 2
    /\ first_chunks' = filing_chunks
    /\ UNCHANGED <<rerankVars, scoreVars>>

\* lines 240-252 and 268-269: the head of the loop over sections: a section
\* whose text is empty is skipped, any other is windowed; after the last
\* section the chunk list is returned
FilingSection ==
    /\ pc = "filing_section"
    /\ IF sec_i < Len(sections)
       THEN LET section_text == SectionText(filing_text, sections, sec_i)
            IN  IF section_text = <<>>
                THEN /\ sec_i' = sec_i + 1
                     /\ UNCHANGED <<pc, caller, splitVars>>
                ELSE /\ SplitEnter(section_text, chunk_size, overlap,
                                   "chunk_filing", "filing_collect")
                     /\ UNCHANGED sec_i
       ELSE /\ pc' = "filing_done"
            /\ UNCHANGED <<caller, splitVars, sec_i>>
    /\ UNCHANGED <<rerankVars, scoreVars, locatorVars, html_content, filing_text,
                   filing_chunks, global_chunk_index, filing_args, call_no, first_chunks>>

\* lines 224-237 and 253-266: the windows split_text_into_chunks returned
\* become chunks; lines 268-269 when there are no sections
FilingCollect ==
    /\ pc = "filing_collect"
    /\ LET labelled == sections # <<>>
           item_number == IF labelled THEN sections[sec_i + 1].item_number ELSE None
           item_name == IF labelled THEN sections[sec_i + 1].item_name ELSE NoName
       IN  /\ filing_chunks' = filing_chunks
                \o MakeChunks(chunks, item_number, item_name, global_chunk_index,
                              filing_args)
           /\ global_chunk_index' = global_chunk_index + Len(chunks)
           /\ sec_i' = IF labelled THEN sec_i + 1 ELSE sec_i
           /\ pc' = IF labelled THEN "filing_section" ELSE "filing_done"
    /\ UNCHANGED <<caller, splitVars, rerankVars, scoreVars, locatorVars,
                   html_content, filing_text, filing_args, call_no, first_chunks>>

(***************************************************************************)
(* BM25Scorer, reranker.py lines 13-108.  A float is kept as the exact     *)
(* fraction num / den; math.log is kept symbolic: a score is the sequence  *)
(* of addends log(idf_arg) * weight that line 104 adds to 0.0, in order.   *)
(***************************************************************************)
Frac(n, d) == [num |-> n, den |-> d]

FAdd(a, b) == Frac(a.num * b.den + b.num * a.den, a.den * b.den)

FSub(a, b) == Frac(a.num * b.den - b.num * a.den, a.den * b.den)

FMul(a, b) == Frac(a.num * b.num, a.den * b.den)

\* a / b for b # 0 (the callers test the divisor first, as Python does)
FDiv(a, b) == Frac(a.num * b.den, a.den * b.num)

\* lines 21, 29: k1 = 1.5
K1 == Frac(3, 2)

\* lines 21, 30: b = 0.75
B == Frac(3, 4)

\* str.lower() on the upper-case letters
LowerOf ==
    [c \in { UpperCase[k] : k \in 1..26 } |->
        LowerCase[CHOOSE k \in 1..26 : UpperCase[k] = c]]

\* str.lower()
LowerSeq(s) == [k \in 1..Len(s) |-> IF s[k] \in DOMAIN LowerOf THEN LowerOf[s[k]] ELSE s[k]]

\* line 43: the class [a-zA-Z0-9]
AlnumChars ==
    { LowerCase[k] : k \in 1..26 } \cup { UpperCase[k] : k \in 1..26 } \cup Digits

\* line 43: [a-zA-Z0-9]+ is greedy: the position after the run that starts at i
RECURSIVE AlnumRunEnd(_, _)
AlnumRunEnd(s, i) ==
    IF i <= Len(s) /\ s[i] \in AlnumChars THEN AlnumRunEnd(s, i + 1) ELSE i

\* line 43: the trailing \b, tried at the end e of the run and then, giving
\* characters back, at every shorter end down to i + 1; 0 when none fits
RECURSIVE TokenEnd(_, _, _)
TokenEnd(s, i, e) ==
    IF e <= i THEN 0
    ELSE IF WordBoundary(s, e - 1) THEN e
    ELSE TokenEnd(s, i, e - 1)

\* line 43: re.findall(r'\b[a-zA-Z0-9]+\b', s), the non-overlapping matches
\* from left to right; \b is a boundary of \w, which holds the underscore
RECURSIVE FindTokens(_, _)
FindTokens(s, i) ==
    IF i > Len(s) THEN <<>>
    ELSE LET e == IF s[i] \in AlnumChars /\ WordBoundary(s, i - 1)
                  THEN TokenEnd(s, i, AlnumRunEnd(s, i))
                  ELSE 0
         IN  IF e = 0 THEN FindTokens(s, i + 1)
             ELSE <<SubSeq(s, i, e - 1)>> \o FindTokens(s, e)

\* lines 32-44: _tokenize
Tokenize(t) == FindTokens(LowerSeq(t), 1)

\* Counter(tokens)[term]
RECURSIVE CountOf(_, _)
CountOf(tokens, term) ==
    IF tokens = <<>> THEN 0
    ELSE (IF tokens[1] = term THEN 1 ELSE 0) + CountOf(Tail(tokens), term)

\* sum(doc_lengths)
RECURSIVE SumLen(_)
SumLen(toks) == IF toks = <<>> THEN 0 ELSE Len(toks[1]) + SumLen(Tail(toks))

\* line 69: sum(doc_lengths) / len(doc_lengths) if doc_lengths else 1
AvgDocLen(toks) == IF toks # <<>> THEN Frac(SumLen(toks), Len(toks)) ELSE Frac(1, 1)

\* lines 71-76 and 94: doc_freqs.get(term, 0)
DocFreq(toks, term) == Cardinality({ d \in 1..Len(toks) : CountOf(toks[d], term) > 0 })

\* line 97 in the classic form, without the + 1
IdfArg_Classic(n_docs, df) == FDiv(FAdd(Whole(n_docs - df), Frac(1, 2)), FAdd(Whole(df), Frac(1, 2)))

\* line 97: the argument of math.log, (n_docs - df + 0.5) / (df + 0.5) + 1
IdfArg(n_docs, df) ==
    FAdd(FDiv(FAdd(Whole(n_docs - df), Frac(1, 2)), FAdd(Whole(df), Frac(1, 2))), Whole(1))

NoAddend(err) == [error |-> err, idf_arg |-> Frac(1, 1), weight |-> Frac(0, 1)]

\* lines 91-104: what one query term present in the document adds to its
\* score, or the error the first failing operation raises: math.log of a
\* non-positive argument, then the divisions of lines 102 and 104
TermAddend(tf, df, n_docs, doc_len, avg) ==
    LET idf_arg == IdfArg(n_docs, df)
        numerator == FMul(Whole(tf), FAdd(K1, Whole(1)))
    IN  IF idf_arg.num * idf_arg.den <= 0 THEN NoAddend("ValueError")
        ELSE IF avg.num = 0 THEN NoAddend("ZeroDivisionError")
        ELSE LET denominator ==
                     FAdd(Whole(tf),
                          FMul(K1, FAdd(FSub(Whole(1), B),
                                        FMul(B, FDiv(Whole(doc_len), avg)))))
             IN  IF denominator.num = 0 THEN NoAddend("ZeroDivisionError")
                 ELSE [error |-> "none", idf_arg |-> idf_arg,
                       weight |-> FDiv(numerator, denominator)]

\* lines 86-104 without the skip of lines 87-88: every query term is scored,
\* held by the document or not
RECURSIVE DocAddends_NoSkip(_, _, _, _)
DocAddends_NoSkip(terms, k, toks, d) ==
    IF k > Len(terms) THEN <<>>
    ELSE <<TermAddend(CountOf(toks[d], terms[k]), DocFreq(toks, terms[k]),
                      Len(toks), Len(toks[d]), AvgDocLen(toks))>>
         \o DocAddends_NoSkip(terms, k + 1, toks, d)

\* lines 86-104: the addends of one document, one per query term (repeated
\* terms repeat) that the document holds, from term k of the query on
RECURSIVE DocAddends(_, _, _, _)
DocAddends(terms, k, toks, d) ==
    IF k > Len(terms) THEN <<>>
    ELSE IF CountOf(toks[d], terms[k]) = 0 THEN DocAddends(terms, k + 1, toks, d)
    ELSE <<TermAddend(CountOf(toks[d], terms[k]), DocFreq(toks, terms[k]),
                      Len(toks), Len(toks[d]), AvgDocLen(toks))>>
         \o DocAddends(terms, k + 1, toks, d)

\* the first error among the addends in evaluation order, or "none"
RECURSIVE FirstError(_)
FirstError(adds) ==
    IF adds = <<>> THEN "none"
    ELSE IF adds[1].error # "none" THEN adds[1].error
    ELSE FirstError(Tail(adds))

\* the addends of all documents in evaluation order
RECURSIVE AllAddends(_, _, _)
AllAddends(terms, toks, d) ==
    IF d > Len(toks) THEN <<>>
    ELSE DocAddends(terms, 1, toks, d) \o AllAddends(terms, toks, d + 1)

\* line 63 as [0.0], without the repetition
ZeroScores_Single(docs) == << <<>> >>

\* line 63: [0.0] * len(documents); 0.0 is the empty sum
ZeroScores(docs) == [d \in 1..Len(docs) |-> <<>>]

\* lines 57-108: score(query, documents): the returned list and the locals,
\* or the error raised
BM25Score(q, docs) ==
    LET terms == Tokenize(q)
        toks == [d \in 1..Len(docs) |-> Tokenize(docs[d])]
    IN  IF docs = <<>>
        THEN [raised |-> "none", query_terms |-> <<>>, doc_tokens |-> <<>>,
              avg_doc_len |-> Frac(1, 1), scores |-> <<>>]
        ELSE IF terms = <<>>
        THEN [raised |-> "none", query_terms |-> terms, doc_tokens |-> <<>>,
              avg_doc_len |-> Frac(1, 1), scores |-> ZeroScores(docs)]
        ELSE [raised |-> FirstError(AllAddends(terms, toks, 1)),
              query_terms |-> terms, doc_tokens |-> toks,
              avg_doc_len |-> AvgDocLen(toks),
              scores |-> IF FirstError(AllAddends(terms, toks, 1)) = "none"
                         THEN [d \in 1..Len(docs) |-> DocAddends(terms, 1, toks, d)]
                         ELSE <<>>]

\* a local the call has not assigned
Unset == Frac(0, 0)

\* the queries and the documents of the model
QueryTexts ==
    { <<>>,
      <<"a">>,
      <<"A", " ", "b">>,
      <<"a", ",", "a">>,
      <<"?", "_">>,
      <<"c">> }

DocTexts ==
    { <<>>,
      <<"a">>,
      <<"a", " ", "A", " ", "b">>,
      <<"b", "_">>,
      <<".">> }

\* lines 46-108: one call of score
Score ==
    /\ Idle
    /\ \E q \in QueryTexts, n \in 0..MaxDocs :
         \E docs \in [1..n -> DocTexts] :
            LET r == BM25Score(q, docs)
            IN  /\ query' = q
                /\ documents' = docs
                /\ query_terms' = r.query_terms
                /\ doc_tokens' = r.doc_tokens
                /\ avg_doc_len' = IF r.doc_tokens = <<>> THEN Unset ELSE r.avg_doc_len
                /\ doc_scores' = r.scores
                /\ raised' = r.raised
                /\ pc' = IF r.raised = "none" THEN "score_done" ELSE "score_raised"
    /\ UNCHANGED <<caller, tok_text, tok_words, splitVars, rerankVars, locatorVars, filingVars>>

\* the pieces the texts handed to _tokenize are concatenated from
TokenPieces ==
    { <<"f", "o", "o">>, <<"b", "a", "r">>, <<"B", "7">>, <<"_">>, <<" ">>, <<".">> }

RECURSIVE TokenTextsOf(_)
TokenTextsOf(n) ==
    IF n = 0 THEN {<<>>}
    ELSE LET shorter == TokenTextsOf(n - 1)
         IN  shorter \cup { t \o q : t \in shorter, q \in TokenPieces }

TokenTexts == TokenTextsOf(MaxTokenPieces)

\* lines 32-44: one call of _tokenize
CallTokenize ==
    /\ Idle
    /\ \E t \in TokenTexts :
          /\ tok_text' = t
          /\ tok_words' = Tokenize(t)
    /\ pc' = "tokenize_done"
    /\ UNCHANGED <<caller, query, documents, query_terms, doc_tokens, avg_doc_len,
                   doc_scores, raised, splitVars, rerankVars, locatorVars, filingVars>>

(***************************************************************************)
(* Claims about split_text_into_chunks.                                    *)
(***************************************************************************)
\* ceil(a / b) for b >= 1
CeilDiv(a, b) == (a + b - 1) \div b

\* the word indices of window j of chunks
WindowRange(j) == { w \in 0..(Len(words) - 1) : chunks[j].lo <= w /\ w < chunks[j].hi }

\* a direct call of split_text_into_chunks has returned
SplitReturned == pc = "split_done" /\ caller = "top"

\* C2: with L >= 1 words, chunk_size >= 1 and overlap >= chunk_size the call
\* terminates and returns exactly ceil(L / chunk_size) windows: the loop never
\* holds more windows than that, and the returned list has exactly that many.
C2_DegenerateOverlapTerminates ==
    (caller = "top" /\ pc \in {"split_loop", "split_done"}
        /\ Len(words) >= 1 /\ chunk_size >= 1 /\ overlap >= chunk_size)
    => /\ Len(chunks) <= CeilDiv(Len(words), chunk_size)
       /\ pc = "split_done" => Len(chunks) = CeilDiv(Len(words), chunk_size)

\* C3: with L >= 1 words and 0 <= overlap < chunk_size the returned list is not
\* empty, every window is the contiguous word range [lo, hi) of the text, the
\* first starts at word 0, the last ends at word L, and every word index
\* 0..L-1 lies in some window.
C3_WindowsCoverText ==
    (SplitReturned /\ Len(words) >= 1 /\ 0 <= overlap /\ overlap < chunk_size)
    => /\ Len(chunks) >= 1
       /\ \A j \in 1..Len(chunks) :
             /\ 0 <= chunks[j].lo
             /\ chunks[j].lo < chunks[j].hi
             /\ chunks[j].hi <= Len(words)
             /\ chunks[j].text = Join(SubSeq(words, chunks[j].lo + 1, chunks[j].hi))
       /\ chunks[1].lo = 0
       /\ chunks[Len(chunks)].hi = Len(words)
       /\ \A w \in 0..(Len(words) - 1) : \E j \in 1..Len(chunks) : w \in WindowRange(j)

\* a returned list of three or more windows that overlap
C3_Witness ==
    /\ SplitReturned
    /\ 1 <= overlap /\ overlap < chunk_size
    /\ Len(chunks) >= 3

\* C4: with 0 <= overlap < chunk_size window j+1 starts exactly overlap words
\* before the end of window j, the two share exactly overlap words, and every
\* window but the last holds exactly chunk_size words.
C4_ExactOverlap ==
    (SplitReturned /\ 0 <= overlap /\ overlap < chunk_size)
    => \A j \in 1..(Len(chunks) - 1) :
          /\ chunks[j + 1].lo = chunks[j].hi - overlap
          /\ Cardinality(WindowRange(j) \cap WindowRange(j + 1)) = overlap
          /\ chunks[j].hi - chunks[j].lo = chunk_size
          /\ Len(PySplit(chunks[j].text)) = chunk_size

\* full windows sharing one word each, followed by a shorter last window
C4_Witness ==
    /\ SplitReturned
    /\ overlap = 1 /\ chunk_size = 3
    /\ Len(chunks) >= 3
    /\ chunks[Len(chunks)].hi - chunks[Len(chunks)].lo < chunk_size

\* the cursor at the end of the iteration that appended window j: the cursor
\* the next window was cut with, or the present cursor after the last one
CursorAfter(j) == IF j < Len(chunks) THEN chunks[j + 1].lo ELSE start

\* C16: in every iteration of the loop, for chunk_size >= 1 and overlap >= 0,
\* the cursor at the end of the iteration is strictly greater than at its
\* beginning; when overlap >= chunk_size and the window did not reach the end
\* of the text, the next cursor is that window's end.
C16_CursorAdvances ==
    (pc \in {"split_loop", "split_done"} /\ chunk_size >= 1 /\ overlap >= 0)
    => \A j \in 1..Len(chunks) :
          /\ CursorAfter(j) > chunks[j].lo
          /\ (overlap >= chunk_size /\ chunks[j].hi < Len(words))
             => CursorAfter(j) = chunks[j].hi

(***************************************************************************)
(* Claims about Reranker.rerank.                                           *)
(***************************************************************************)
RerankReturned == pc = "rerank_done"

NDocs == Len(results.documents)

\* C1 as stated: with k = 60 and three candidates A, B, C (input order A, B,
\* C) whose lexical rank order is C, B, A, the fused score of B strictly
\* exceeds those of A and of C, and B is the first element of a non-empty
\* output.
C1_AgreementRanksFirst ==
    (RerankReturned /\ NDocs = 3 /\ Bm25RankedIndices(bm25_scores) = <<2, 1, 0>>)
    => /\ K = 60
       /\ KeyGt(rrf_scores[2], rrf_scores[1])
       /\ KeyGt(rrf_scores[2], rrf_scores[3])
       /\ n_final >= 1 =>
             /\ reranked_indices[1] = 1
             /\ reranked_results.documents[1] = results.documents[2]

\* C1 as amended: with k = 60 and three candidates A, B, C whose lexical rank
\* order is C, B, A, the fused score of B (2/61) is strictly below those of A
\* and C (1/60 + 1/62 each, equal), so the fused order is A, C, B: A is the
\* first element of a non-empty output and B comes last.
C1_SplitRanksFirst ==
    (RerankReturned /\ NDocs = 3 /\ Bm25RankedIndices(bm25_scores) = <<2, 1, 0>>)
    => /\ K = 60
       /\ KeyGt(rrf_scores[1], rrf_scores[2])
       /\ KeyGt(rrf_scores[3], rrf_scores[2])
       /\ ~KeyGt(rrf_scores[1], rrf_scores[3])
       /\ ~KeyGt(rrf_scores[3], rrf_scores[1])
       /\ reranked_indices = PySlice(<<0, 2, 1>>, 0, n_final)
       /\ n_final >= 1 => reranked_results.documents[1] = results.documents[1]
       /\ n_final >= 3 => reranked_results.documents[3] = results.documents[2]

\* the three-candidate call with lexical order C, B, A returning A, C, B
C1_Witness ==
    /\ RerankReturned
    /\ NDocs = 3
    /\ bm25_scores[1] < bm25_scores[2] /\ bm25_scores[2] < bm25_scores[3]
    /\ n_final = 3
    /\ reranked_results.documents
          = <<results.documents[1], results.documents[3], results.documents[2]>>

\* C5: for n >= 0 candidates and n_final >= 0 each of the three returned
\* arrays has length exactly min(n_final, n).
C5_OutputLength ==
    (RerankReturned /\ n_final >= 0)
    => /\ Len(reranked_results.documents) = Min(n_final, NDocs)
       /\ Len(reranked_results.metadatas) = Min(n_final, NDocs)
       /\ Len(reranked_results.distances) = Min(n_final, NDocs)

\* a call that truncates three candidates to two
C5_Witness ==
    /\ RerankReturned
    /\ NDocs = 3 /\ n_final = 2
    /\ Len(reranked_results.documents) = 2

\* C6: every output position holds the document, metadata and distance of
\* one input index, no input index is selected twice, and with n_final >= n
\* the output is a permutation of all n candidates.
C6_AlignedPermutation ==
    RerankReturned
    => /\ Len(reranked_results.documents) = Len(reranked_indices)
       /\ Len(reranked_results.metadatas) = Len(reranked_indices)
       /\ Len(reranked_results.distances) = Len(reranked_indices)
       /\ \A p \in 1..Len(reranked_indices) :
             /\ reranked_indices[p] \in 0..(NDocs - 1)
             /\ reranked_results.documents[p] = results.documents[reranked_indices[p] + 1]
             /\ reranked_results.metadatas[p] = results.metadatas[reranked_indices[p] + 1]
             /\ reranked_results.distances[p] = results.distances[reranked_indices[p] + 1]
       /\ \A p, r \in 1..Len(reranked_indices) :
             reranked_indices[p] = reranked_indices[r] => p = r
       /\ n_final >= NDocs =>
             /\ Len(reranked_results.documents) = NDocs
             /\ { reranked_results.documents[p] : p \in 1..NDocs }
                   = { results.documents[q] : q \in 1..NDocs }

\* all three candidates returned in an order that differs from the input's
C6_Witness ==
    /\ RerankReturned
    /\ NDocs = 3 /\ n_final >= 3
    /\ results.distances = <<0, 1, 2>>
    /\ reranked_indices = <<1, 0, 2>>

\* C7: the selected indices depend only on ranks: a call with the same n and
\* n_final, any distances, and any BM25 scores that induce the same lexical
\* ranking selects the same indices in the same order.
C7_RankOnly ==
    (RerankReturned /\ NDocs >= 1)
    => \A s2 \in ScoreVectors(NDocs) :
          (\A q \in 1..NDocs : Bm25Rank(s2, q - 1) = bm25_ranks[q])
          => \A r2 \in Bundles(NDocs) :
                RerankedIndices(r2, s2, n_final) = reranked_indices

\* a call whose scores (0, 1, 1) share their ranking with the different
\* vector (0, 2, 2), and whose distances are not all equal
C7_Witness ==
    /\ RerankReturned
    /\ bm25_scores = <<0, 1, 1>>
    /\ Bm25Ranks(<<0, 2, 2>>) = bm25_ranks
    /\ results.distances = <<0, 1, 2>>
    /\ n_final = 2
    /\ reranked_indices = <<1, 0>>

\* C18: the lexical ranks are a permutation of 0..n-1 in which a higher BM25
\* score gets a lower rank and equal scores are ranked by ascending input
\* index; in the final ordering a higher fused score comes first and equal
\* fused scores appear in ascending input index.
C18_StableTies ==
    (RerankReturned /\ NDocs >= 1)
    => /\ Len(bm25_ranks) = NDocs
       /\ { bm25_ranks[q] : q \in 1..NDocs } = 0..(NDocs - 1)
       /\ \A i, j \in 1..NDocs :
             /\ bm25_scores[i] > bm25_scores[j] => bm25_ranks[i] < bm25_ranks[j]
             /\ (bm25_scores[i] = bm25_scores[j] /\ i < j) => bm25_ranks[i] < bm25_ranks[j]
       /\ \A p, r \in 1..Len(reranked_indices) :
             p < r
             => LET a == rrf_scores[reranked_indices[p] + 1]
                    b == rrf_scores[reranked_indices[r] + 1]
                IN  /\ ~KeyGt(b, a)
                    /\ ~KeyGt(a, b) => reranked_indices[p] < reranked_indices[r]

\* scores (1, 2, 1): candidates 0 and 2 tie lexically, and candidates 0 and 1
\* swap their two ranks, so their fused scores tie
C18_Witness ==
    /\ RerankReturned
    /\ bm25_scores = <<1, 2, 1>>
    /\ bm25_ranks = <<1, 0, 2>>
    /\ ~KeyGt(rrf_scores[1], rrf_scores[2]) /\ ~KeyGt(rrf_scores[2], rrf_scores[1])
    /\ n_final = 3
    /\ reranked_indices = <<0, 1, 2>>

(***************************************************************************)
(* Claims about identify_item_sections.                                    *)
(***************************************************************************)
IdentifyReturned == pc = "identify_done"

\* the position after the maximal run of word characters of s that starts at i
RECURSIVE WordRunEnd(_, _)
WordRunEnd(s, i) == IF IsWordAt(s, i) THEN WordRunEnd(s, i + 1) ELSE i

\* the marker that stands at the 0-based offset p of s: the keyword in any
\* case, any whitespace, then a whole word that is, upper-cased, a section
\* code; <<>> when no marker stands there
MarkerCodeAt(s, p) ==
    IF ~MatchLit(s, p + 1, Keyword) THEN <<>>
    ELSE LET j == SkipSpace(s, p + 1 + Len(Keyword))
             code == UpperSeq(SubSeq(s, j, WordRunEnd(s, j) - 1))
         IN  IF code \in DOMAIN ITEM_NAMES THEN code ELSE <<>>

\* the codes of the markers of s from offset p on, in text order
RECURSIVE MarkerCodesFrom(_, _)
MarkerCodesFrom(s, p) ==
    IF p >= Len(s) THEN <<>>
    ELSE IF MarkerCodeAt(s, p) = <<>> THEN MarkerCodesFrom(s, p + 1)
    ELSE <<MarkerCodeAt(s, p)>> \o MarkerCodesFrom(s, p + 1)

\* the offsets of item_text at which a marker of the code stands
MarkerOffsets(code) ==
    { p \in 0..(Len(item_text) - 1) : MarkerCodeAt(item_text, p) = code }

\* C8: at most one boundary per section code, codes compared after
\* upper-casing; that boundary stands at the first occurrence of the code in
\* the text; the boundary positions are strictly increasing.
C8_FirstOccurrencePerCode ==
    IdentifyReturned
    => /\ \A a, b \in 1..Len(sections) :
             UpperSeq(sections[a].item_number) = UpperSeq(sections[b].item_number)
             => a = b
       /\ \A a \in 1..Len(sections) :
             LET at == MarkerOffsets(UpperSeq(sections[a].item_number))
             IN  /\ sections[a].position \in at
                 /\ \A p \in at : sections[a].position <= p
       /\ \A a \in 1..(Len(sections) - 1) :
             sections[a].position < sections[a + 1].position

\* a text that repeats the code 1A in two cases and holds a second code
C8_Witness ==
    /\ IdentifyReturned
    /\ Cardinality(MarkerOffsets(<<"1", "A">>)) >= 2
    /\ \E p, q \in MarkerOffsets(<<"1", "A">>) :
          item_text[p + 6] = "1" /\ item_text[p + 7] = "a"
          /\ item_text[q + 6] = "1" /\ item_text[q + 7] = "A"
    /\ Len(sections) = 2

\* C9: every boundary carries the full code of the marker at its position,
\* also when another code is a prefix of it, and the name the table gives
\* that code; every marker code of the text has a boundary; a text whose
\* markers are Item 1, Item 1A, Item 2 in that order yields exactly three
\* boundaries named Business, Risk Factors, Properties.
C9_FullCodeAndName ==
    IdentifyReturned
    => /\ \A a \in 1..Len(sections) :
             /\ sections[a].item_number = MarkerCodeAt(item_text, sections[a].position)
             /\ sections[a].item_number \in DOMAIN ITEM_NAMES
             /\ sections[a].item_name = ITEM_NAMES[sections[a].item_number]
       /\ { sections[a].item_number : a \in 1..Len(sections) }
             = { MarkerCodeAt(item_text, p) : p \in 0..(Len(item_text) - 1) } \ {<<>>}
       /\ MarkerCodesFrom(item_text, 0) = << <<"1">>, <<"1", "A">>, <<"2">> >>
          => /\ Len(sections) = 3
             /\ [a \in 1..3 |-> sections[a].item_number]
                   = << <<"1">>, <<"1", "A">>, <<"2">> >>
             /\ [a \in 1..3 |-> sections[a].item_name]
                   = <<"Business", "Risk Factors", "Properties">>

\* the text "Item 1 x Item 1A Item 2" with its three boundaries
C9_Witness ==
    /\ IdentifyReturned
    /\ item_text = <<"I", "t", "e", "m", " ", "1", " ", "x",
                     " ", "I", "t", "e", "m", " ", "1", "A",
                     " ", "I", "t", "e", "m", " ", "2">>
    /\ [a \in 1..Len(sections) |-> sections[a].position] = <<0, 9, 17>>

(***************************************************************************)
(* Claims about chunk_filing.                                              *)
(***************************************************************************)
FilingReturned == pc = "filing_done"

\* C10: in every list chunk_filing returns, the k-th chunk (from 0) has
\* chunk_index = k: one counter, contiguous from 0 across all sections in
\* boundary order, never restarted per section.
C10_GlobalChunkIndex ==
    FilingReturned
    => /\ \A k \in 1..Len(filing_chunks) : filing_chunks[k].chunk_index = k - 1
       /\ global_chunk_index = Len(filing_chunks)

\* a returned list in which two sections have two or more chunks each
C10_Witness ==
    /\ FilingReturned
    /\ Len(sections) = 2
    /\ Len(filing_chunks) >= 4
    /\ filing_chunks[1].item_number = filing_chunks[2].item_number
    /\ filing_chunks[1].item_number # filing_chunks[Len(filing_chunks)].item_number
    /\ filing_chunks[Len(filing_chunks) - 1].item_number
          = filing_chunks[Len(filing_chunks)].item_number

\* C11: when no boundary is found in the normalized text, the whole
\* normalized text is windowed as one span (the returned chunks are, in
\* order, the windows of split_text_into_chunks on it) and every returned
\* chunk has item_number = None and item_name = None; in every returned chunk
\* item_name is present if and only if item_number is present.
C11_UnlabelledWhole ==
    FilingReturned
    => /\ (filing_text # <<>> /\ identify_item_sections(filing_text) = <<>>)
          => /\ text = filing_text
             /\ words = PySplit(filing_text)
             /\ Len(filing_chunks) = Len(chunks)
             /\ \A k \in 1..Len(filing_chunks) :
                   /\ filing_chunks[k].text = chunks[k].text
                   /\ filing_chunks[k].item_number = None
                   /\ filing_chunks[k].item_name = NoName
       /\ \A k \in 1..Len(filing_chunks) :
             (filing_chunks[k].item_name # NoName) <=> (filing_chunks[k].item_number # None)

\* a text without boundary returned as two or more unlabelled chunks
C11_Witness ==
    /\ FilingReturned
    /\ filing_text # <<>>
    /\ sections = <<>>
    /\ Len(filing_chunks) >= 2
    /\ filing_chunks[2].item_number = None

(***************************************************************************)
(* Claims about BM25Scorer.                                                *)
(***************************************************************************)
\* a call of score has returned or raised
ScoreEnded == pc \in {"score_done", "score_raised"}

\* the float an addend stands for is 0.0: log(1) or a zero weight
ZeroAddend(a) == a.idf_arg.num = a.idf_arg.den \/ a.weight.num = 0

\* the maximal runs of alphanumeric characters of s from position i on
RECURSIVE AlnumRuns(_, _)
AlnumRuns(s, i) ==
    IF i > Len(s) THEN <<>>
    ELSE IF s[i] \in AlnumChars
         THEN <<SubSeq(s, i, AlnumRunEnd(s, i) - 1)>> \o AlnumRuns(s, AlnumRunEnd(s, i))
         ELSE AlnumRuns(s, i + 1)

\* C17: _tokenize returns exactly the maximal runs of alphanumeric characters
\* of the lower-cased text, every other character (the underscore too) being
\* a separator: 'foo_bar' yields 'foo' and 'bar'.
C17_AlnumRuns ==
    pc = "tokenize_done"
    => /\ tok_words = AlnumRuns(LowerSeq(tok_text), 1)
       /\ tok_text = <<"f", "o", "o", "_", "b", "a", "r">>
          => tok_words = << <<"f", "o", "o">>, <<"b", "a", "r">> >>

\* C12: for a query that tokenizes to zero tokens and a non-empty candidate
\* list, score raises no error and returns a list as long as the candidate
\* list whose every entry is exactly 0.0 (nothing was added to it).
C12_EmptyQueryZeros ==
    (ScoreEnded /\ documents # <<>> /\ Tokenize(query) = <<>>)
    => /\ raised = "none"
       /\ pc = "score_done"
       /\ Len(doc_scores) = Len(documents)
       /\ \A d \in 1..Len(doc_scores) : doc_scores[d] = <<>>

\* a query of punctuation only scored against three documents, one with words
C12_Witness ==
    /\ pc = "score_done"
    /\ query = <<"?", "_">>
    /\ Len(documents) = 3
    /\ Tokenize(documents[1]) # <<>>
    /\ Len(doc_scores) = 3

\* C13: for every query and every non-empty candidate list (a single
\* document, empty documents included) score raises nothing, and every addend
\* of every returned score is finite and non-negative: the IDF argument is a
\* fraction of positive terms that is at least 1, so its logarithm is at least
\* 0, and the weight is a non-negative fraction with a positive denominator;
\* a score is the sum of its addends.  A term present in a document has
\* 1 <= df <= n, and df = 1 when there is one document.
C13_FiniteNonNegative ==
    (ScoreEnded /\ documents # <<>>)
    => /\ raised = "none"
       /\ Len(doc_scores) = Len(documents)
       /\ \A d \in 1..Len(doc_scores) :
             \A k \in 1..Len(doc_scores[d]) :
                LET a == doc_scores[d][k]
                IN  /\ a.idf_arg.den > 0
                    /\ a.idf_arg.num >= a.idf_arg.den
                    /\ a.weight.den > 0
                    /\ a.weight.num >= 0
       /\ \A d \in 1..Len(doc_tokens) :
             \A k \in 1..Len(query_terms) :
                CountOf(doc_tokens[d], query_terms[k]) > 0
                => /\ 1 <= DocFreq(doc_tokens, query_terms[k])
                   /\ DocFreq(doc_tokens, query_terms[k]) <= Len(documents)
                   /\ Len(documents) = 1 => DocFreq(doc_tokens, query_terms[k]) = 1

\* three documents, one of them empty, and a query term that two of them
\* hold, one of them twice
C13_Witness ==
    /\ pc = "score_done"
    /\ Len(documents) = 3
    /\ \E d \in 1..3 : documents[d] = <<>>
    /\ \E k \in 1..Len(query_terms) :
          /\ DocFreq(doc_tokens, query_terms[k]) = 2
          /\ \E d \in 1..3 : CountOf(doc_tokens[d], query_terms[k]) = 2
    /\ \E d \in 1..3 : Len(doc_scores[d]) >= 1

\* every document of the call tokenizes to zero tokens
AllDocsEmpty == \A d \in 1..Len(documents) : Tokenize(documents[d]) = <<>>

\* C19 as stated: for a non-empty candidate list in which every document
\* tokenizes to zero tokens, the average length that line 69 computes for
\* the length normalization is 1, never 0, and no division by zero is
\* executed for any query.
C19_AverageGuarded ==
    (ScoreEnded /\ documents # <<>> /\ AllDocsEmpty)
    => /\ raised = "none"
       /\ avg_doc_len # Unset
          => avg_doc_len.num # 0 /\ avg_doc_len.num = avg_doc_len.den

\* C19 as amended: for a non-empty candidate list in which every document
\* tokenizes to zero tokens, the average length that line 69 computes is 0
\* (the fallback 1 is not taken), and still no division by zero is executed
\* for any query: no query term is held by any document, so no length
\* normalization is evaluated and every score is exactly 0.0.
C19_ZeroAverageUnused ==
    (ScoreEnded /\ documents # <<>> /\ AllDocsEmpty)
    => /\ raised = "none"
       /\ pc = "score_done"
       /\ avg_doc_len # Unset
          => avg_doc_len.num = 0 /\ avg_doc_len.den = Len(documents)
       /\ Len(doc_scores) = Len(documents)
       /\ \A d \in 1..Len(doc_scores) : doc_scores[d] = <<>>

\* a query with two tokens scored against three documents without tokens
C19_Witness ==
    /\ pc = "score_done"
    /\ Len(query_terms) = 2
    /\ Len(documents) = 3
    /\ \E d \in 1..3 : documents[d] # <<>>
    /\ AllDocsEmpty
    /\ avg_doc_len = Frac(0, 3)

(***************************************************************************)
(* Claims about several functions.                                         *)
(***************************************************************************)
\* a text with no words: empty or whitespace only
NoWords(t) == \A k \in 1..Len(t) : IsSpace(t[k])

\* a call of chunk_filing is running or has returned
FilingCalled ==
    caller = "chunk_filing" \/ pc \in {"filing_section", "filing_collect", "filing_done"}

\* C14: empty inputs give empty results at once and no exception:
\* split_text_into_chunks on a text with no words returns zero windows,
\* chunk_filing on markup whose normalized text is empty returns an empty
\* chunk list, score with zero documents returns an empty list, and rerank
\* with zero candidates returns the input bundle unchanged.
C14_EmptyInputs ==
    /\ (caller = "top" /\ pc \in {"split_loop", "split_done"} /\ NoWords(text))
       => pc = "split_done" /\ chunks = <<>> /\ raised = "none"
    /\ (FilingCalled /\ extract_text_from_html(html_content) = <<>>)
       => pc = "filing_done" /\ filing_chunks = <<>> /\ raised = "none"
    /\ (ScoreEnded /\ documents = <<>>)
       => pc = "score_done" /\ doc_scores = <<>> /\ raised = "none"
    /\ (RerankReturned /\ results.documents = <<>>)
       => reranked_results = results /\ raised = "none"

\* markup of three nodes whose normalized text is empty, chunked to nothing
C14_Witness ==
    /\ pc = "filing_done"
    /\ Len(html_content) = 3
    /\ \E k \in 1..3 : html_content[k].kind = "text"
    /\ filing_text = <<>>
    /\ filing_chunks = <<>>

\* the identifiers of a chunk list, in order
ChunkIds(cs) == [k \in 1..Len(cs) |-> generate_id(cs[k])]

\* C15: a second call of chunk_filing with the same markup, metadata,
\* chunk_size and overlap returns a list equal to the first element by element
\* (text, item_number, item_name, chunk_index, metadata) with equal
\* identifiers element by element; within one returned list the identifiers
\* are pairwise distinct.
C15_Deterministic ==
    FilingReturned
    => /\ call_no = 2
          => /\ Len(filing_chunks) = Len(first_chunks)
             /\ \A k \in 1..Len(filing_chunks) :
                   /\ filing_chunks[k].text = first_chunks[k].text
                   /\ filing_chunks[k].item_number = first_chunks[k].item_number
                   /\ filing_chunks[k].item_name = first_chunks[k].item_name
                   /\ filing_chunks[k].chunk_index = first_chunks[k].chunk_index
                   /\ to_metadata_dict(filing_chunks[k]) = to_metadata_dict(first_chunks[k])
             /\ ChunkIds(filing_chunks) = ChunkIds(first_chunks)
       /\ \A j, k \in 1..Len(filing_chunks) :
             generate_id(filing_chunks[j]) = generate_id(filing_chunks[k]) => j = k

\* a second call that returned four or more chunks of two sections
C15_Witness ==
    /\ FilingReturned
    /\ call_no = 2
    /\ Len(sections) = 2
    /\ Len(filing_chunks) >= 4
    /\ Len(first_chunks) >= 4
    /\ generate_id(filing_chunks[1]) = <<"1", "-", "2", "5", "_", "1", "_", "0">>

\* the span of boundary i (from 1): from its position to the position of the
\* next boundary, or to the end of the text after the last one
Span(i) ==
    PySlice(filing_text, sections[i].position,
            IF i < Len(sections) THEN sections[i + 1].position ELSE Len(filing_text))

\* the spans of the boundaries i, i+1, ... put one after the other
RECURSIVE SpansFrom(_)
SpansFrom(i) == IF i > Len(sections) THEN <<>> ELSE Span(i) \o SpansFrom(i + 1)

\* the returned chunks that carry the code of boundary i
ChunksOfSection(i) ==
    { k \in 1..Len(filing_chunks) : filing_chunks[k].item_number = sections[i].item_number }

\* C20: with at least one boundary the spans are [position i, position i+1),
\* the last one running to the end of the text, and they partition the text
\* from the first boundary's position to the end in boundary order; every
\* chunk is a range of the words of the span whose label it carries, the
\* chunks follow the boundary order, and every word of every span is in some
\* chunk of that span's section; so nothing located before the first boundary
\* is in any chunk.
C20_SpansPartition ==
    (FilingReturned /\ filing_text # <<>> /\ identify_item_sections(filing_text) # <<>>)
    => /\ sections = identify_item_sections(filing_text)
       /\ SpansFrom(1) = PySlice(filing_text, sections[1].position, Len(filing_text))
       /\ \A i \in 1..Len(sections) : Span(i) # <<>>
       /\ \A k \in 1..Len(filing_chunks) :
             \E i \in 1..Len(sections) :
                /\ k \in ChunksOfSection(i)
                /\ filing_chunks[k].item_name = sections[i].item_name
                /\ 0 <= filing_chunks[k].lo
                /\ filing_chunks[k].lo < filing_chunks[k].hi
                /\ filing_chunks[k].hi <= Len(PySplit(Span(i)))
                /\ filing_chunks[k].text
                      = Join(SubSeq(PySplit(Span(i)), filing_chunks[k].lo + 1,
                                    filing_chunks[k].hi))
       /\ \A i, j \in 1..Len(sections) :
             i < j => \A k \in ChunksOfSection(i), l \in ChunksOfSection(j) : k < l
       /\ \A i \in 1..Len(sections) :
             \A w \in 0..(Len(PySplit(Span(i))) - 1) :
                \E k \in ChunksOfSection(i) :
                   filing_chunks[k].lo <= w /\ w < filing_chunks[k].hi

\* a text with words before the first of two boundaries, returned as chunks
\* of both sections
C20_Witness ==
    /\ FilingReturned
    /\ Len(sections) = 2
    /\ sections[1].position > 0
    /\ ChunksOfSection(1) # {}
    /\ Cardinality(ChunksOfSection(2)) >= 2

(***************************************************************************)
(* Claims about the sections of chunk_filing.                              *)
(***************************************************************************)

\* the item_number values met along the chunks from chunk k on, a value being
\* kept when it differs from the one before it
RECURSIVE DistinctCodesFrom(_)
DistinctCodesFrom(k) ==
    IF k > Len(filing_chunks) THEN <<>>
    ELSE IF k > 1 /\ filing_chunks[k].item_number = filing_chunks[k - 1].item_number
         THEN DistinctCodesFrom(k + 1)
         ELSE <<filing_chunks[k].item_number>> \o DistinctCodesFrom(k + 1)

\* the codes of the boundaries, in boundary order
BoundaryCodes == [i \in 1..Len(sections) |-> sections[i].item_number]

\* every code of the marker pattern, as the code upper-cases it, is a key of
\* the name table
PatternCodesNamed ==
    \A a \in 1..Len(ItemCodes) : NormalizeCode(ItemCodes[a]) \in DOMAIN ITEM_NAMES

\* C21: every boundary identify_item_sections returns contributes at least
\* one chunk: the stripped text of a section is never empty, so the branch
\* that skips an empty section is never taken; the distinct item_number
\* values met along the returned chunk list are the boundary codes in
\* boundary order, the chunks of one section being contiguous; and no
\* boundary is named "Unknown Section", every code the marker pattern can
\* match being, once upper-cased, a key of ITEM_NAMES.
C21_EveryBoundaryChunked ==
    /\ PatternCodesNamed
    /\ \A i \in 1..Len(sections) :
          /\ sections[i].item_name # "Unknown Section"
          /\ sections[i].item_name = ITEM_NAMES[sections[i].item_number]
    /\ (pc = "filing_section" /\ sec_i < Len(sections))
       => SectionText(filing_text, sections, sec_i) # <<>>
    /\ (FilingReturned /\ sections # <<>>)
       => /\ \A i \in 1..Len(sections) : ChunksOfSection(i) # {}
          /\ DistinctCodesFrom(1) = BoundaryCodes
          /\ \A i \in 1..Len(sections) :
                \A k, l \in ChunksOfSection(i) :
                   \A x \in k..l : x \in ChunksOfSection(i)

\* a returned call with three boundaries, one of them a marker inside a word
\* and one with several chunks
C21_Witness ==
    /\ FilingReturned
    /\ Len(sections) = 3
    /\ \E i \in 1..3 : Cardinality(ChunksOfSection(i)) >= 2
    /\ \E i \in 1..3 :
          /\ sections[i].position > 0
          /\ ~IsSpace(filing_text[sections[i].position])
    /\ DistinctCodesFrom(1) = BoundaryCodes

(***************************************************************************)
(* Claims about the fused order of Reranker.rerank.                        *)
(***************************************************************************)

\* no document of the score call holds any token of the query (so also when
\* the query has no token)
NoQueryTokenHeld ==
    \A d \in 1..Len(documents) :
       \A k \in 1..Len(Tokenize(query)) :
          CountOf(Tokenize(documents[d]), Tokenize(query)[k]) = 0

\* all candidates of the rerank call got the same BM25 score
EqualBm25Scores == \A a, b \in 1..NDocs : bm25_scores[a] = bm25_scores[b]

\* C22: when all n >= 1 candidates get the same BM25 score, rerank returns
\* the first min(n_final, n) candidates in their input order, for every
\* n_final >= 0: the indices are 0, 1, ... and the three arrays are the
\* prefixes of the input arrays.  BM25Scorer.score gives every candidate the
\* same score, exactly 0.0, when the query has no token or no candidate holds
\* a token of the query.
C22_EqualScoresKeepOrder ==
    /\ (RerankReturned /\ NDocs >= 1 /\ n_final >= 0 /\ EqualBm25Scores)
       => /\ reranked_indices = [p \in 1..Min(n_final, NDocs) |-> p - 1]
          /\ reranked_results.documents
                = SubSeq(results.documents, 1, Min(n_final, NDocs))
          /\ reranked_results.metadatas
                = SubSeq(results.metadatas, 1, Min(n_final, NDocs))
          /\ reranked_results.distances
                = SubSeq(results.distances, 1, Min(n_final, NDocs))
    /\ (ScoreEnded /\ documents # <<>> /\ NoQueryTokenHeld)
       => /\ pc = "score_done"
          /\ Len(doc_scores) = Len(documents)
          /\ \A d \in 1..Len(doc_scores) : doc_scores[d] = <<>>

\* three candidates with one positive BM25 score each, two of them asked for
C22_Witness ==
    /\ RerankReturned
    /\ NDocs = 3
    /\ bm25_scores = <<1, 1, 1>>
    /\ results.distances = <<0, 1, 2>>
    /\ n_final = 2
    /\ reranked_indices = <<0, 1>>
    /\ reranked_results.documents = SubSeq(results.documents, 1, 2)

\* the place of candidate i (0-based) in the fused ordering of all the
\* candidates, before the cut to n_final
FusedPos(i) == SortedDescPos(rrf_scores, i)

\* candidate i (0-based) is in the output
InOutput(i) == \E p \in 1..Len(reranked_indices) : reranked_indices[p] = i

\* where candidate i (0-based) stands in the output
OutputPos(i) == CHOOSE p \in 1..Len(reranked_indices) : reranked_indices[p] = i

\* C23: rank dominance.  For any two candidates i and j, if i precedes j in
\* the input order and the lexical rank of i is lower than that of j, then i
\* precedes j in the fused ordering, so j is in the output only if i is, and
\* then after i; a candidate that is first in both rankings is the first
\* output element.
C23_RankDominance ==
    (RerankReturned /\ NDocs >= 1)
    => /\ \A i, j \in 0..(NDocs - 1) :
             (i < j /\ bm25_ranks[i + 1] < bm25_ranks[j + 1])
             => /\ FusedPos(i) < FusedPos(j)
                /\ InOutput(j) => (InOutput(i) /\ OutputPos(i) < OutputPos(j))
       /\ (bm25_ranks[1] = 0 /\ n_final >= 1)
          => /\ reranked_indices[1] = 0
             /\ reranked_results.documents[1] = results.documents[1]

\* scores (2, 0, 1): candidate 0 is first in both rankings and dominates
\* candidates 1 and 2; two are asked for, so candidate 1, last lexically, is
\* cut while candidate 2, which it precedes in the input, is kept
C23_Witness ==
    /\ RerankReturned
    /\ bm25_scores = <<2, 0, 1>>
    /\ bm25_ranks = <<0, 2, 1>>
    /\ n_final = 2
    /\ InOutput(0) /\ OutputPos(0) = 1
    /\ reranked_indices[1] = 0

Init ==
    /\ pc = "idle"
    /\ caller = "top"
    /\ text = <<>>
    /\ chunk_size = 1
    /\ overlap = 0
    /\ words = <<>>
    /\ chunks = <<>>
    /\ chunk_index = 0
    /\ start = 0
    /\ results = EmptyBundle
    /\ n_final = 2
    /\ bm25_scores = <<>>
    /\ bm25_ranks = <<>>
    /\ rrf_scores = <<>>
    /\ reranked_indices = <<>>
    /\ reranked_results = EmptyBundle
    /\ item_text = <<>>
    /\ sections = <<>>
    /\ html_content = <<>>
    /\ filing_text = <<>>
    /\ sec_i = 0
    /\ filing_chunks = <<>>
    /\ global_chunk_index = 0
    /\ filing_args = [ticker |-> "", cik |-> "", accession_number |-> <<>>,
                      filing_date |-> "", filing_type |-> "",
                      chunk_size |-> 1, overlap |-> 0]
    /\ call_no = 0
    /\ first_chunks = <<>>
    /\ query = <<>>
    /\ documents = <<>>
    /\ query_terms = <<>>
    /\ doc_tokens = <<>>
    /\ avg_doc_len = Unset
    /\ doc_scores = <<>>
    /\ raised = "none"
    /\ tok_text = <<>>
    /\ tok_words = <<>>

NextSplit == CallSplit \/ SplitIter \/ SplitReturn

SpecSplit == Init /\ [][NextSplit]_vars

NextRerank == Rerank

SpecRerank == Init /\ [][NextRerank]_vars

NextLocator == IdentifyItemSections

SpecLocator == Init /\ [][NextLocator]_vars

NextFiling ==
    ChunkFiling \/ ChunkFilingAgain \/ FilingSection \/ SplitIter \/ SplitReturn
        \/ FilingCollect

SpecFiling == Init /\ [][NextFiling]_vars

NextScore == Score

SpecScore == Init /\ [][NextScore]_vars

NextTokenize == CallTokenize

SpecTokenize == Init /\ [][NextTokenize]_vars

\* every operation of the model
Next == NextSplit \/ NextRerank \/ NextLocator \/ NextFiling \/ NextScore \/ NextTokenize

Spec == Init /\ [][Next]_vars

=============================================================================
